---- MODULE Spec2Model ----
(***************************************************************************)
(* A model of src/main.py: the healthcare data pipeline                    *)
(*   load_data -> clean_data -> visualize_data -> detect_anomalies ->      *)
(*   summary_statistics.                                                   *)
(*                                                                         *)
(* A DataFrame is a record [cols, rows]: the set of column names and the   *)
(* sequence of rows, each row carrying its index label (idx) and its cells *)
(* (a function from the column names).  A cell is a record                 *)
(*   [k, n, d, s]: k = "na" (NaN/NA/NaT), "num" (the rational n/d in       *)
(*   lowest terms), "str" (the characters s) or "date" (n = yyyymmdd).     *)
(* DataFrames are objects: heap is the sequence of the objects allocated   *)
(* so far and an object id is a position of heap.  df is the caller's      *)
(* variable, arg the object passed to the last call, anomalies the object  *)
(* detect_anomalies returned, out what was printed or drawn, calls the     *)
(* calls made so far.                                                      *)
(***************************************************************************)
EXTENDS Integers, Sequences, FiniteSets, TLC

VARIABLES pc, file, heap, df, arg, anomalies, column, out, calls

vars == <<pc, file, heap, df, arg, anomalies, column, out, calls>>

(***************************************************************************)
(* Bounds of the model.                                                    *)
(***************************************************************************)
MaxRows == 3

MaxDetectRows == 12

(***************************************************************************)
(* Program constants.                                                      *)
(***************************************************************************)
AgeMin == 0

AgeMax == 120

PhoneMinLen == 7

PhoneMaxLen == 15

CholMin == 50

CholMax == 400

ZThreshold == 3

(***************************************************************************)
(* Column names.                                                           *)
(***************************************************************************)
Recognized == {"Visit Date", "Age", "Gender", "Phone Number", "Email",
               "Cholesterol", "Blood Pressure"}

AllCols == Recognized \cup {"Name"}

(***************************************************************************)
(* Rational arithmetic (pandas works on float64; the model keeps the exact *)
(* value, which every number met here has).                                *)
(***************************************************************************)
Abs(x) == IF x < 0 THEN -x ELSE x

RECURSIVE Gcd(_, _)
Gcd(a, b) == IF b = 0 THEN a ELSE Gcd(b, a % b)

NA == [k |-> "na", n |-> 0, d |-> 1, s |-> <<>>]

Rat(a, b) ==
    LET g == Gcd(Abs(a), Abs(b))
        sg == IF b < 0 THEN -1 ELSE 1
    IN [k |-> "num", n |-> (sg * a) \div g, d |-> (sg * b) \div g, s |-> <<>>]

Num(a) == [k |-> "num", n |-> a, d |-> 1, s |-> <<>>]

Str(q) == [k |-> "str", n |-> 0, d |-> 1, s |-> q]

Date(y, m, dd) == [k |-> "date", n |-> y * 10000 + m * 100 + dd, d |-> 1, s |-> <<>>]

IsNA(c) == c.k = "na"

RLess(a, b) == a.n * b.d < b.n * a.d

RLeq(a, b) == a.n * b.d <= b.n * a.d

RAdd(a, b) == Rat(a.n * b.d + b.n * a.d, a.d * b.d)

RSub(a, b) == Rat(a.n * b.d - b.n * a.d, a.d * b.d)

RMul(a, b) == Rat(a.n * b.n, a.d * b.d)

RDivInt(a, m) == Rat(a.n, a.d * m)

(***************************************************************************)
(* Strings are sequences of one-character strings.                         *)
(***************************************************************************)
DigitChars == <<"0", "1", "2", "3", "4", "5", "6", "7", "8", "9">>

IsDigit(ch) == \E i \in 1..10 : DigitChars[i] = ch

DigitVal(ch) == (CHOOSE i \in 1..10 : DigitChars[i] = ch) - 1

IsSpace(ch) == ch = " "

\* str.lower(): the letters of the model's alphabet that have an upper case
Lower(ch) ==
    CASE ch = "M" -> "m" [] ch = "F" -> "f" [] ch = "A" -> "a"
      [] ch = "L" -> "l" [] ch = "E" -> "e" [] OTHER -> ch

LowerStr(q) == [i \in 1..Len(q) |-> Lower(q[i])]

\* str.strip(): leading and trailing whitespace removed
Strip(q) ==
    LET keep == {i \in 1..Len(q) : ~IsSpace(q[i])}
    IN IF keep = {} THEN <<>>
       ELSE LET lo == CHOOSE i \in keep : \A j \in keep : i <= j
                hi == CHOOSE i \in keep : \A j \in keep : j <= i
            IN SubSeq(q, lo, hi)

\* str.replace(r"\D", "", regex=True): every non-digit removed
OnlyDigits(q) == SelectSeq(q, IsDigit)

\* str.contains("@")
Contains(q, ch) == \E i \in 1..Len(q) : q[i] = ch

RECURSIVE NatDigits(_)
NatDigits(m) ==
    IF m < 10 THEN <<DigitChars[m + 1]>>
    ELSE NatDigits(m \div 10) \o <<DigitChars[(m % 10) + 1]>>

RECURSIVE FracDigits(_, _)
FracDigits(r, d) ==
    IF r = 0 THEN <<>>
    ELSE <<DigitChars[((r * 10) \div d) + 1]>> \o FracDigits((r * 10) % d, d)

RECURSIVE DigitsVal(_)
DigitsVal(q) ==
    IF q = <<>> THEN 0
    ELSE 10 * DigitsVal(SubSeq(q, 1, Len(q) - 1)) + DigitVal(q[Len(q)])

AllDigits(q) == q # <<>> /\ \A i \in 1..Len(q) : IsDigit(q[i])

\* a numeric column is float64 as soon as it holds a NaN or a fraction
FloatColumn(col) == \E i \in 1..Len(col) : IsNA(col[i]) \/ (col[i].k = "num" /\ col[i].d # 1)

\* astype(str) of one cell: a missing value prints as "nan", a number of an
\* int64 column as its digits, a number of a float64 column with its fraction
\* ("35.0")
AsStr(c, float) ==
    CASE c.k = "str" -> c.s
      [] c.k = "na" -> <<"n", "a", "n">>
      [] c.k = "num" ->
            (IF c.n < 0 THEN <<"-">> ELSE <<>>)
            \o NatDigits(Abs(c.n) \div c.d)
            \o (IF c.d # 1 THEN <<".">> \o FracDigits(Abs(c.n) % c.d, c.d)
                ELSE IF float THEN <<".", "0">> ELSE <<>>)
      [] OTHER -> NatDigits(c.n)

\* pd.to_numeric(..., errors="coerce") of one cell
ToNumeric(c) ==
    CASE c.k = "num" -> c
      [] c.k = "na" -> NA
      [] c.k = "date" -> Num(c.n)
      [] OTHER ->
            LET q == Strip(c.s)
                neg == q # <<>> /\ q[1] = "-"
                body == IF neg THEN SubSeq(q, 2, Len(q)) ELSE q
            IN IF AllDigits(body)
               THEN Num(IF neg THEN -DigitsVal(body) ELSE DigitsVal(body))
               ELSE NA

(***************************************************************************)
(* pd.to_datetime(..., format="mixed", dayfirst=True, errors="coerce") of   *)
(* one cell.  The model's date strings are three numeric fields separated  *)
(* by "/" or "-": year first when the first field has four digits (ISO),   *)
(* day first otherwise, day and month swapped when the month read that way *)
(* is above 12; anything else is NaT.                                      *)
(***************************************************************************)
RECURSIVE Split(_, _)
Split(q, sep) ==
    IF ~Contains(q, sep) THEN <<q>>
    ELSE LET i == CHOOSE j \in 1..Len(q) :
                      q[j] = sep /\ \A h \in 1..(j - 1) : q[h] # sep
         IN <<SubSeq(q, 1, i - 1)>> \o Split(SubSeq(q, i + 1, Len(q)), sep)

IsLeap(y) == (y % 4 = 0 /\ y % 100 # 0) \/ y % 400 = 0

DaysIn(y, m) ==
    CASE m \in {4, 6, 9, 11} -> 30
      [] m = 2 -> (IF IsLeap(y) THEN 29 ELSE 28)
      [] OTHER -> 31

ValidDate(y, m, dd) == m \in 1..12 /\ dd >= 1 /\ dd <= DaysIn(y, m)

DateOrNaT(y, m, dd) == IF ValidDate(y, m, dd) THEN Date(y, m, dd) ELSE NA

ParseDate(c) ==
    CASE c.k = "na" -> NA
      [] c.k = "date" -> c
      [] c.k = "num" -> Date(1970, 1, 1)
      [] OTHER ->
            LET q == Strip(c.s)
                f == IF Contains(q, "/") THEN Split(q, "/") ELSE Split(q, "-")
            IN IF Len(f) # 3 \/ \E i \in 1..3 : ~AllDigits(f[i]) THEN NA
               ELSE LET a == DigitsVal(f[1])
                        b == DigitsVal(f[2])
                        e == DigitsVal(f[3])
                    IN IF Len(f[1]) = 4 THEN DateOrNaT(a, b, e)
                       ELSE IF b > 12 /\ a <= 12 THEN DateOrNaT(e, a, b)
                       ELSE DateOrNaT(e, b, a)

(***************************************************************************)
(* DataFrame helpers.                                                      *)
(***************************************************************************)
EmptyFrame == [cols |-> {}, rows |-> <<>>]

ColumnOf(t, c) == [i \in 1..Len(t.rows) |-> t.rows[i].cells[c]]

\* df[c] = F(df[c]) cell by cell
MapCol(t, c, F(_)) ==
    [t EXCEPT !.rows = [i \in 1..Len(t.rows) |->
                           [t.rows[i] EXCEPT !.cells[c] = F(t.rows[i].cells[c])]]]

\* the rows at the positions of keep, in their order
KeepRows(rows, keep) ==
    LET F[i \in 0..Len(rows)] ==
            IF i = 0 THEN <<>>
            ELSE IF i \in keep THEN Append(F[i - 1], rows[i]) ELSE F[i - 1]
    IN F[Len(rows)]

\* df.drop_duplicates(): a row goes when an earlier row has the same cells in
\* every column (a missing cell equals a missing cell); index labels are kept
FirstOccurrences(rows) ==
    {i \in 1..Len(rows) : \A j \in 1..(i - 1) : rows[j].cells # rows[i].cells}

drop_duplicates(t) == [t EXCEPT !.rows = KeepRows(t.rows, FirstOccurrences(t.rows))]

(***************************************************************************)
(* The column rules of clean_data.                                         *)
(***************************************************************************)
CleanVisitDate(t) ==
    IF "Visit Date" \in t.cols THEN MapCol(t, "Visit Date", ParseDate) ELSE t

AgeOutOfRange(v) == v.k = "num" /\ (RLess(v, Num(AgeMin)) \/ RLess(Num(AgeMax), v))

AgeRule(c) == LET v == ToNumeric(c) IN IF AgeOutOfRange(v) THEN NA ELSE v

CleanAge(t) == IF "Age" \in t.cols THEN MapCol(t, "Age", AgeRule) ELSE t

Male == <<"m", "a", "l", "e">>

Female == <<"f", "e", "m", "a", "l", "e">>

\* .replace({"m": "male", "f": "female"}) replaces whole values
GenderReplace(q) == IF q = <<"m">> THEN Male ELSE IF q = <<"f">> THEN Female ELSE q

GenderRule(c, float) ==
    LET q == GenderReplace(LowerStr(Strip(AsStr(c, float))))
    IN IF q \in {Male, Female} THEN Str(q) ELSE NA

CleanGender(t) ==
    IF "Gender" \in t.cols
    THEN LET float == FloatColumn(ColumnOf(t, "Gender"))
         IN MapCol(t, "Gender", LAMBDA c : GenderRule(c, float))
    ELSE t

\* mutant: the lower bound of the length check is lost
PhoneLenOkNoMin(q) == Len(q) <= PhoneMaxLen

PhoneLenOk(q) == Len(q) >= PhoneMinLen /\ Len(q) <= PhoneMaxLen

PhoneRule(c, float) ==
    LET q == OnlyDigits(AsStr(c, float)) IN IF PhoneLenOk(q) THEN Str(q) ELSE NA

CleanPhoneNumber(t) ==
    IF "Phone Number" \in t.cols
    THEN LET float == FloatColumn(ColumnOf(t, "Phone Number"))
         IN MapCol(t, "Phone Number", LAMBDA c : PhoneRule(c, float))
    ELSE t

EmailRule(c, float) == IF Contains(AsStr(c, float), "@") THEN c ELSE NA

CleanEmail(t) ==
    IF "Email" \in t.cols
    THEN LET float == FloatColumn(ColumnOf(t, "Email"))
         IN MapCol(t, "Email", LAMBDA c : EmailRule(c, float))
    ELSE t

\* the k-th smallest of the numbers of the sequence vals
Kth(vals, k) ==
    LET i == CHOOSE j \in 1..Len(vals) :
                 /\ Cardinality({h \in 1..Len(vals) : RLess(vals[h], vals[j])}) < k
                 /\ Cardinality({h \in 1..Len(vals) : RLeq(vals[h], vals[j])}) >= k
    IN vals[i]

\* Series.median(): missing values skipped, NaN when nothing is left
Median(col) ==
    LET vals == SelectSeq(col, LAMBDA c : c.k = "num")
        m == Len(vals)
    IN IF m = 0 THEN NA
       ELSE IF m % 2 = 1 THEN Kth(vals, (m + 1) \div 2)
       ELSE RDivInt(RAdd(Kth(vals, m \div 2), Kth(vals, (m \div 2) + 1)), 2)

CholOutOfRange(v) == v.k = "num" /\ (RLess(v, Num(CholMin)) \/ RLess(Num(CholMax), v))

CholRule(c) == LET v == ToNumeric(c) IN IF CholOutOfRange(v) THEN NA ELSE v

\* Series.fillna(value): a NaN value fills nothing
FillNA(c, value) == IF IsNA(c) /\ ~IsNA(value) THEN value ELSE c

\* mutant: the median is taken before the out-of-range values are nulled
CleanCholesterolMedianFirst(t) ==
    IF "Cholesterol" \in t.cols
    THEN LET med == Median(ColumnOf(MapCol(t, "Cholesterol", ToNumeric), "Cholesterol"))
         IN MapCol(MapCol(t, "Cholesterol", CholRule), "Cholesterol",
                   LAMBDA c : FillNA(c, med))
    ELSE t

CleanCholesterol(t) ==
    IF "Cholesterol" \in t.cols
    THEN LET nulled == MapCol(t, "Cholesterol", CholRule)
             med == Median(ColumnOf(nulled, "Cholesterol"))
         IN MapCol(nulled, "Cholesterol", LAMBDA c : FillNA(c, med))
    ELSE t

\* mutant: the systolic part of the split is written back to the column
CleanBloodPressureWriteBack(t) ==
    IF "Blood Pressure" \in t.cols
    THEN MapCol(t, "Blood Pressure", LAMBDA c : Str(Split(AsStr(c, FALSE), "/")[1]))
    ELSE t

\* bp_split is a local that nothing reads: the table is left as it was
CleanBloodPressure(t) ==
    IF "Blood Pressure" \in t.cols
    THEN LET float == FloatColumn(ColumnOf(t, "Blood Pressure"))
             bp_split == [i \in 1..Len(t.rows) |->
                             Split(AsStr(t.rows[i].cells["Blood Pressure"], float), "/")]
         IN t
    ELSE t

\* F(v), the statement F run on the table v (v is evaluated once)
Then(v, F(_)) == CHOOSE r \in {F(x) : x \in {v}} : TRUE

\* line 98, a comment in the source: df.dropna(subset=["Visit Date", "Cholesterol"])
DropMissingCritical(t) ==
    [t EXCEPT !.rows =
        SelectSeq(t.rows, LAMBDA r : \A c \in {"Visit Date", "Cholesterol"} \cap t.cols :
                                         ~IsNA(r.cells[c]))]

\* mutant: line 98 active, rows without Visit Date or Cholesterol dropped
clean_data_dropna(t) ==
    Then(Then(Then(Then(Then(Then(Then(Then(drop_duplicates(t),
        CleanVisitDate), CleanAge), CleanGender), CleanPhoneNumber), CleanEmail),
        CleanCholesterol), CleanBloodPressure), DropMissingCritical)

\* lines 30 to 103, statement after statement
clean_data(t) ==
    Then(Then(Then(Then(Then(Then(Then(drop_duplicates(t),
        CleanVisitDate), CleanAge), CleanGender), CleanPhoneNumber), CleanEmail),
        CleanCholesterol), CleanBloodPressure)

(***************************************************************************)
(* The input tables of the cleaner: every table of at most MaxRows rows    *)
(* over one of the Schemas, its cells drawn from the pool of its column,   *)
(* indexed 0, 1, 2, ... as read_csv indexes them.                          *)
(***************************************************************************)
DatePool ==
    {NA,
     Str(<<"1", "3", "/", "0", "2", "/", "2", "0", "2", "4">>),
     Str(<<"0", "2", "/", "1", "3", "/", "2", "0", "2", "4">>),
     Str(<<"2", "0", "2", "4", "-", "0", "2", "-", "1", "3">>),
     Str(<<"3", "1", "/", "0", "2", "/", "2", "0", "2", "4">>),
     Str(<<"x">>)}

AgePool ==
    {NA, Num(-1), Num(0), Num(35), Num(120), Num(121), Str(<<"3", "5">>), Str(<<"x">>)}

GenderPool ==
    {NA, Str(<<"M", " ">>), Str(<<" ", "f">>), Str(<<"M", "a", "l", "e">>),
     Str(<<"F", "E", "M", "A", "L", "E">>), Str(Male), Str(<<"x">>), Str(<<>>)}

PhonePool ==
    {NA,
     Str(<<"(", "5", "5", "5", ")", " ", "1", "2", "3", "-", "4", "5", "6", "7">>),
     Str(<<"5", "5", "5", "1", "2", "3", "4", "5", "6", "7">>),
     Str(<<"5", "5", "5", "1", "2", "3", "4">>),
     Str(<<"5", "5", "5", "1", "2", "3">>),
     Str(<<"1", "2", "3", "4", "5", "6", "7", "8", "9", "0", "1", "2", "3", "4", "5">>),
     Str(<<"1", "2", "3", "4", "5", "6", "7", "8", "9", "0", "1", "2", "3", "4", "5", "6">>),
     Str(<<"a", "b", "c">>)}

EmailPool == {NA, Str(<<"a", "@", "b">>), Str(<<"a", "b">>), Str(<<"@">>)}

CholPool ==
    {NA, Str(<<"x">>), Str(<<"2", "0", "0">>), Num(49), Num(50), Num(100),
     Num(300), Num(400), Num(401)}

BPPool ==
    {NA, Str(<<"1", "2", "0", "/", "8", "0">>), Str(<<"1", "2", "0">>), Str(<<"/">>)}

NamePool == {NA, Str(<<"a", "n", "n">>), Str(<<"b", "o", "b">>)}

Pool(c) ==
    CASE c = "Visit Date" -> DatePool
      [] c = "Age" -> AgePool
      [] c = "Gender" -> GenderPool
      [] c = "Phone Number" -> PhonePool
      [] c = "Email" -> EmailPool
      [] c = "Cholesterol" -> CholPool
      [] c = "Blood Pressure" -> BPPool
      [] OTHER -> NamePool

FullRow(vd, age, g, ph, em, ch, bp, nm) ==
    [c \in AllCols |->
        CASE c = "Visit Date" -> vd
          [] c = "Age" -> age
          [] c = "Gender" -> g
          [] c = "Phone Number" -> ph
          [] c = "Email" -> em
          [] c = "Cholesterol" -> ch
          [] c = "Blood Pressure" -> bp
          [] OTHER -> nm]

AnnRow(g, ch) ==
    FullRow(Str(<<"1", "3", "/", "0", "2", "/", "2", "0", "2", "4">>), Num(35), g,
            Str(<<"(", "5", "5", "5", ")", " ", "1", "2", "3", "-", "4", "5", "6", "7">>),
            Str(<<"a", "@", "b">>), ch, Str(<<"1", "2", "0", "/", "8", "0">>),
            Str(<<"a", "n", "n">>))

FullRows ==
    {AnnRow(Str(<<"M", " ">>), Num(100)),
     AnnRow(Str(Male), Num(100)),
     AnnRow(Str(Male), Num(300)),
     FullRow(Str(<<"x">>), Num(121), Str(<<"x">>), Str(<<"5", "5", "5", "1", "2", "3">>),
             Str(<<"a", "b">>), Num(401), Str(<<"1", "2", "0">>), Str(<<"b", "o", "b">>)),
     FullRow(NA, NA, NA, NA, NA, NA, NA, NA),
     FullRow(Str(<<"2", "0", "2", "4", "-", "0", "2", "-", "1", "3">>), Str(<<"3", "5">>),
             Str(<<"F", "E", "M", "A", "L", "E">>),
             Str(<<"5", "5", "5", "1", "2", "3", "4", "5", "6", "7">>), Str(<<"@">>),
             Str(<<"2", "0", "0">>), Str(<<"/">>), Str(<<"a", "n", "n">>))}

Schemas == {{c} : c \in AllCols} \cup {AllCols}

RowsOf(sch) ==
    IF sch = AllCols THEN FullRows
    ELSE UNION {{[c \in sch |-> v] : v \in Pool(cc)} : cc \in sch}

\* the table read_csv builds from these cells: RangeIndex 0..len-1
Frame(sch, cells) ==
    [cols |-> sch,
     rows |-> [i \in 1..Len(cells) |-> [idx |-> i - 1, cells |-> cells[i]]]]

InputTables ==
    UNION {{Frame(sch, cells) : cells \in UNION {[1..len -> RowsOf(sch)] : len \in 0..MaxRows}}
           : sch \in Schemas}

NoFile == [exists |-> FALSE, cols |-> <<>>, lines |-> <<>>]

(***************************************************************************)
(* A call of clean_data(df).  Line 30 rebinds the local df to the new      *)
(* object drop_duplicates returns; every later assignment writes that      *)
(* object, which is what the call returns.                                 *)
(***************************************************************************)
\* mutant: the duplicates are dropped in place and the argument is written
CleanCallInPlace(h, id) == [heap |-> [h EXCEPT ![id] = clean_data(h[id])], ret |-> id]

CleanCall(h, id) == [heap |-> Append(h, clean_data(h[id])), ret |-> Len(h) + 1]

Printed(msg, id) == [msg |-> msg, obj |-> id, val |-> <<>>]

Call(fn, id, col) == [fn |-> fn, obj |-> id, col |-> col]

Clean(from, to) ==
    /\ pc = from
    /\ heap' = CleanCall(heap, df).heap
    /\ df' = CleanCall(heap, df).ret
    /\ out' = out \o <<Printed("Data cleaning complete!", 0),
                       Printed("head", CleanCall(heap, df).ret)>>
    /\ arg' = df
    /\ calls' = Append(calls, Call("clean_data", df, ""))
    /\ pc' = to
    /\ UNCHANGED <<file, anomalies, column>>

CleanOnce == Clean("input", "once")

CleanAgain == Clean("once", "twice")

InitClean ==
    /\ pc = "input"
    /\ file = NoFile
    /\ \E t \in InputTables : heap = <<t>>
    /\ df = 1
    /\ arg = 0
    /\ anomalies = 0
    /\ column = "Cholesterol"
    /\ out = <<>>
    /\ calls = <<>>

NextClean == CleanOnce \/ CleanAgain

SpecClean == InitClean /\ [][NextClean]_vars

(***************************************************************************)
(* detect_anomalies(df, column).                                           *)
(***************************************************************************)
\* pd.to_numeric(df[column], errors="coerce").dropna(): the numbers left, each
\* with the index label of its row
Values(t, c) ==
    SelectSeq([i \in 1..Len(t.rows) |->
                  [idx |-> t.rows[i].idx, v |-> ToNumeric(t.rows[i].cells[c])]],
              LAMBDA e : e.v.k = "num")

Lcm(a, b) == (a * b) \div Gcd(a, b)

\* the values as integers over their common denominator (a standard score
\* does not change when every value is scaled by the same factor)
Scaled(vals) ==
    LET F[i \in 0..Len(vals)] == IF i = 0 THEN 1 ELSE Lcm(F[i - 1], vals[i].v.d)
        D == F[Len(vals)]
    IN [i \in 1..Len(vals) |-> vals[i].v.n * (D \div vals[i].v.d)]

SumSeq(xs) ==
    LET F[i \in 0..Len(xs)] == IF i = 0 THEN 0 ELSE F[i - 1] + xs[i]
    IN F[Len(xs)]

\* mutant: a NaN score counts as exceeding the threshold (~(z <= 3))
ZScoreExceedsOrNaN(xs, i) ==
    LET m == Len(xs)
        S == SumSeq(xs)
        Q == SumSeq([j \in 1..m |-> xs[j] * xs[j]])
        V == m * Q - S * S
    IN IF V = 0 THEN TRUE
       ELSE (m * xs[i] - S) * (m * xs[i] - S) > ZThreshold * ZThreshold * V

\* np.abs(stats.zscore(values)) > 3 at position i.  With m values of sum S
\* and sum of squares Q the population variance is (m*Q - S*S) / m^2 and the
\* score of x is (m*x - S) / sqrt(m*Q - S*S); a zero variance makes every
\* score 0/0 = NaN, which compares False.
ZScoreExceeds(xs, i) ==
    LET m == Len(xs)
        S == SumSeq(xs)
        Q == SumSeq([j \in 1..m |-> xs[j] * xs[j]])
        V == m * Q - S * S
    IN IF V = 0 THEN FALSE
       ELSE (m * xs[i] - S) * (m * xs[i] - S) > ZThreshold * ZThreshold * V

\* values.index[z_scores > 3]: the labels at the positions of the mask
AnomalyLabels(vals) ==
    LET xs == Scaled(vals)
        F[i \in 0..Len(vals)] ==
            IF i = 0 THEN <<>>
            ELSE IF ZScoreExceeds(xs, i) THEN Append(F[i - 1], vals[i].idx) ELSE F[i - 1]
    IN F[Len(vals)]

\* mutant: the mask is applied to the table by position (df[mask], df.iloc)
LocByPosition(t, vals, labels) ==
    [cols |-> t.cols,
     rows |-> KeepRows(t.rows, {i \in 1..Len(vals) : i <= Len(t.rows)
                                   /\ \E j \in 1..Len(labels) : labels[j] = vals[i].idx})]

\* df.loc[labels]: the rows carrying these labels, in the labels' order
Loc(t, vals, labels) ==
    LET F[j \in 0..Len(labels)] ==
            IF j = 0 THEN <<>>
            ELSE F[j - 1] \o SelectSeq(t.rows, LAMBDA r : r.idx = labels[j])
    IN [cols |-> t.cols, rows |-> F[Len(labels)]]

\* mutant: an absent column hands the table back
MissingColumnReturnsInput(t) == t

\* line 150: return pd.DataFrame()
MissingColumnResult(t) == EmptyFrame

detect_anomalies(t, c) ==
    IF c \notin t.cols THEN MissingColumnResult(t)
    ELSE LET values == Values(t, c)
         IN Loc(t, values, AnomalyLabels(values))

Detect(from, to) ==
    /\ pc = from
    /\ heap' = Append(heap, detect_anomalies(heap[df], column))
    /\ anomalies' = Len(heap) + 1
    /\ arg' = df
    /\ out' = out \o (IF column \notin heap[df].cols
                      THEN <<Printed("No column for anomaly detection.", 0)>>
                      ELSE <<Printed("Anomalies detected in", 0),
                             Printed("anomalies", Len(heap) + 1)>>)
    /\ calls' = Append(calls, Call("detect_anomalies", df, column))
    /\ pc' = to
    /\ UNCHANGED <<file, df, column>>

(***************************************************************************)
(* The input tables of detect_anomalies: up to MaxDetectRows rows of       *)
(* Cholesterol 100, two of them replaced by any of the Special cells, and  *)
(* index labels 0, 1, 2, ... with one label left out (the gap a dropped    *)
(* duplicate leaves) or none.                                              *)
(***************************************************************************)
Special == {NA, Str(<<"x">>), Num(100), Num(101), Num(400)}

DetectFrame(len, p1, v1, p2, v2, gap) ==
    [cols |-> {"Cholesterol", "Name"},
     rows |-> [i \in 1..len |->
                  [idx |-> IF i >= gap THEN i ELSE i - 1,
                   cells |-> [c \in {"Cholesterol", "Name"} |->
                                 IF c = "Name" THEN Str(<<"a", "n", "n">>)
                                 ELSE IF i = p1 THEN v1
                                 ELSE IF i = p2 THEN v2
                                 ELSE Num(100)]]]]

DetectOnce == Detect("ready", "returned")

InitDetect ==
    /\ pc = "ready"
    /\ file = NoFile
    /\ \E len \in 0..MaxDetectRows :
          \E p1, p2 \in 1..(IF len = 0 THEN 1 ELSE len) :
             \E v1, v2 \in Special, gap \in 1..(len + 1) :
                /\ p1 <= p2
                /\ heap = <<DetectFrame(len, p1, v1, p2, v2, gap)>>
    /\ df = 1
    /\ arg = 0
    /\ anomalies = 0
    /\ column \in {"Cholesterol", "Name", "Weight"}
    /\ out = <<>>
    /\ calls = <<>>

NextDetect == DetectOnce

SpecDetect == InitDetect /\ [][NextDetect]_vars

(***************************************************************************)
(* load_data(file_path): pd.read_csv.  A file is its header and its lines  *)
(* of fields.  A column whose fields are all empty or numbers is numeric,  *)
(* any other column holds its fields as text; an empty field is missing.   *)
(* A file that does not exist, or has no header, makes read_csv raise.     *)
(***************************************************************************)
Readable(f) == f.exists /\ f.cols # <<>>

NaStrings == {<<>>, <<"N", "A">>, <<"n", "a", "n">>}

FieldOf(f, i, c) == f.lines[i][CHOOSE j \in 1..Len(f.cols) : f.cols[j] = c]

NumericField(q) == ToNumeric(Str(q)).k = "num"

NumericFileColumn(f, c) ==
    \A i \in 1..Len(f.lines) : FieldOf(f, i, c) \in NaStrings \/ NumericField(FieldOf(f, i, c))

read_csv(f) ==
    LET cols == {f.cols[j] : j \in 1..Len(f.cols)}
        numeric == {c \in cols : NumericFileColumn(f, c)}
    IN [cols |-> cols,
        rows |-> [i \in 1..Len(f.lines) |->
                     [idx |-> i - 1,
                      cells |-> [c \in cols |->
                                    LET q == FieldOf(f, i, c)
                                    IN IF q \in NaStrings THEN NA
                                       ELSE IF c \in numeric THEN ToNumeric(Str(q))
                                       ELSE Str(q)]]]]

\* mutant: a failed read is swallowed and an empty table is used
load_data_swallow(f) ==
    [ok |-> TRUE, table |-> IF Readable(f) THEN read_csv(f) ELSE EmptyFrame]

\* the call returns the table, or the exception of read_csv propagates
load_data(f) ==
    IF Readable(f) THEN [ok |-> TRUE, table |-> read_csv(f)]
    ELSE [ok |-> FALSE, table |-> EmptyFrame]

Load ==
    /\ pc = "main"
    /\ calls' = Append(calls, Call("load_data", 0, ""))
    /\ IF load_data(file).ok
       THEN /\ heap' = Append(heap, load_data(file).table)
            /\ df' = Len(heap) + 1
            /\ out' = out \o <<Printed("Data loaded successfully!", 0),
                               Printed("head", Len(heap) + 1),
                               Printed("info", Len(heap) + 1)>>
            /\ pc' = "loaded"
       ELSE /\ pc' = "raised"
            /\ UNCHANGED <<heap, df, out>>
    /\ UNCHANGED <<file, arg, anomalies, column>>

MainClean == Clean("loaded", "cleaned")

(***************************************************************************)
(* visualize_data(df): one chart per group of columns that is present;     *)
(* plt.show() returns when the window is closed.                           *)
(***************************************************************************)
Charts(t, id) ==
    (IF "Cholesterol" \in t.cols THEN <<Printed("histplot Cholesterol", id)>> ELSE <<>>)
    \o (IF {"Cholesterol", "Gender"} \subseteq t.cols
        THEN <<Printed("boxplot Gender Cholesterol", id)>> ELSE <<>>)
    \o (IF {"Visit Date", "Cholesterol"} \subseteq t.cols
        THEN <<Printed("lineplot Visit Date Cholesterol", id)>> ELSE <<>>)
    \o (IF {"Age", "Cholesterol"} \subseteq t.cols
        THEN <<Printed("scatterplot Age Cholesterol", id)>> ELSE <<>>)

Visualize ==
    /\ pc = "cleaned"
    /\ out' = out \o Charts(heap[df], df)
    /\ arg' = df
    /\ calls' = Append(calls, Call("visualize_data", df, ""))
    /\ pc' = "visualized"
    /\ UNCHANGED <<file, heap, df, anomalies, column>>

MainDetect == Detect("visualized", "detected")

(***************************************************************************)
(* summary_statistics(df): mean, median, min, max and quartiles of every   *)
(* numeric column, missing values skipped.  The dtype of a column is not   *)
(* part of the model: a column is numeric when it is none of those the     *)
(* cleaner leaves as dates or text and each cell is a number or missing.   *)
(***************************************************************************)
ColumnOrder ==
    <<"Visit Date", "Age", "Gender", "Phone Number", "Email", "Cholesterol",
      "Blood Pressure", "Name">>

NumericCols(t) ==
    SelectSeq(ColumnOrder,
              LAMBDA c : /\ c \in t.cols \ {"Visit Date", "Gender", "Phone Number"}
                         /\ \A i \in 1..Len(t.rows) : t.rows[i].cells[c].k \in {"num", "na"})

Numbers(col) == SelectSeq(col, LAMBDA c : c.k = "num")

Mean(col) ==
    LET vals == Numbers(col)
        F[i \in 0..Len(vals)] == IF i = 0 THEN Num(0) ELSE RAdd(F[i - 1], vals[i])
    IN IF vals = <<>> THEN NA ELSE RDivInt(F[Len(vals)], Len(vals))

\* Series.quantile(q4 / 4): linear interpolation between the order statistics
Quantile(col, q4) ==
    LET vals == Numbers(col)
        m == Len(vals)
        lo == ((m - 1) * q4) \div 4
        fr == ((m - 1) * q4) % 4
    IN IF m = 0 THEN NA
       ELSE IF fr = 0 THEN Kth(vals, lo + 1)
       ELSE RAdd(Kth(vals, lo + 1),
                 RMul(Rat(fr, 4), RSub(Kth(vals, lo + 2), Kth(vals, lo + 1))))

Summary(t, c) ==
    LET col == ColumnOf(t, c)
    IN [msg |-> c, obj |-> 0,
        val |-> <<Mean(col), Median(col), Quantile(col, 0), Quantile(col, 4),
                  Quantile(col, 1), Quantile(col, 2), Quantile(col, 3)>>]

Summaries(t) == [i \in 1..Len(NumericCols(t)) |-> Summary(t, NumericCols(t)[i])]

Summarize ==
    /\ pc = "detected"
    /\ out' = out \o Summaries(heap[df])
    /\ arg' = df
    /\ calls' = Append(calls, Call("summary_statistics", df, ""))
    /\ pc' = "done"
    /\ UNCHANGED <<file, heap, df, anomalies, column>>

(***************************************************************************)
(* main(): the file is absent, empty, or holds up to MaxRows of the lines  *)
(* below under one of three headers.                                       *)
(***************************************************************************)
CsvLine(vd, age, g, ph, em, ch, bp, nm) ==
    [c \in AllCols |->
        CASE c = "Visit Date" -> vd
          [] c = "Age" -> age
          [] c = "Gender" -> g
          [] c = "Phone Number" -> ph
          [] c = "Email" -> em
          [] c = "Cholesterol" -> ch
          [] c = "Blood Pressure" -> bp
          [] OTHER -> nm]

CsvLines ==
    {CsvLine(<<"1", "3", "/", "0", "2", "/", "2", "0", "2", "4">>, <<"3", "5">>, <<"M", " ">>,
             <<"(", "5", "5", "5", ")", " ", "1", "2", "3", "-", "4", "5", "6", "7">>,
             <<"a", "@", "b">>, <<"1", "0", "0">>, <<"1", "2", "0", "/", "8", "0">>,
             <<"a", "n", "n">>),
     CsvLine(<<"1", "3", "/", "0", "2", "/", "2", "0", "2", "4">>, <<"3", "5">>, Male,
             <<"(", "5", "5", "5", ")", " ", "1", "2", "3", "-", "4", "5", "6", "7">>,
             <<"a", "@", "b">>, <<"1", "0", "0">>, <<"1", "2", "0", "/", "8", "0">>,
             <<"a", "n", "n">>),
     CsvLine(<<"x">>, <<"1", "2", "1">>, <<"x">>, <<"5", "5", "5", "1", "2", "3">>,
             <<"a", "b">>, <<"4", "0", "1">>, <<"1", "2", "0">>, <<"b", "o", "b">>),
     CsvLine(<<>>, <<>>, <<>>, <<>>, <<>>, <<>>, <<>>, <<>>),
     CsvLine(<<"2", "0", "2", "4", "-", "0", "2", "-", "1", "3">>, <<"x">>,
             <<"F", "E", "M", "A", "L", "E">>,
             <<"5", "5", "5", "1", "2", "3", "4">>, <<"@">>,
             <<"3", "0", "0">>, <<"/">>, <<"a", "n", "n">>)}

Headers == {ColumnOrder, <<"Age", "Name">>, <<"Name">>}

CsvFile(header, lines) ==
    [exists |-> TRUE, cols |-> header,
     lines |-> [i \in 1..Len(lines) |-> [j \in 1..Len(header) |-> lines[i][header[j]]]]]

EmptyFile == [exists |-> TRUE, cols |-> <<>>, lines |-> <<>>]

Init ==
    /\ pc = "main"
    /\ \/ file \in {NoFile, EmptyFile}
       \/ \E header \in Headers, len \in 0..MaxRows :
             \E lines \in [1..len -> CsvLines] : file = CsvFile(header, lines)
    /\ heap = <<>>
    /\ df = 0
    /\ arg = 0
    /\ anomalies = 0
    /\ column = "Cholesterol"
    /\ out = <<>>
    /\ calls = <<>>

Next == Load \/ MainClean \/ Visualize \/ MainDetect \/ Summarize

\* control moves on: a run that has neither raised nor ended takes its next
\* step (every call returns; plt.show() returns when the window is closed)
Proceed ==
    /\ pc \notin {"raised", "done"}
    /\ pc' \in {"loaded", "raised", "cleaned", "visualized", "detected", "done"}
    /\ pc' # pc

Spec == Init /\ [][Next]_vars /\ WF_pc(Proceed)

(***************************************************************************)
(* Claims about clean_data, checked under SpecClean.  After a call, In is  *)
(* the object the caller passed and Out the object the call returned.      *)
(***************************************************************************)
In == heap[arg]

Out == heap[df]

Returned == pc \in {"once", "twice"}

Labels(t) == {t.rows[i].idx : i \in 1..Len(t.rows)}

PosOf(t, label) == CHOOSE i \in 1..Len(t.rows) : t.rows[i].idx = label

\* the input row an output row stems from: the one with its index label
SrcRow(j) == In.rows[PosOf(In, Out.rows[j].idx)]

InRange(v, lo, hi) == v.k = "num" /\ RLeq(Num(lo), v) /\ RLeq(v, Num(hi))

\* C1 (as claimed): cleaning the cleaned table again changes nothing:
\* clean_data(clean_data(T)) has the rows and cells of clean_data(T).
C1_Idempotent == pc = "twice" => Out = In

\* C2: after clean_data every Cholesterol cell that coerces to a number within
\* [50,400] holds that number, and every other cell holds the median of the
\* in-range values of the deduplicated column; all stay missing when there is
\* no in-range value.
C2_ValidValues ==
    SelectSeq([i \in 1..Len(drop_duplicates(In).rows) |->
                  ToNumeric(drop_duplicates(In).rows[i].cells["Cholesterol"])],
              LAMBDA v : InRange(v, CholMin, CholMax))

C2_CholesterolFill ==
    (pc = "once" /\ "Cholesterol" \in In.cols) =>
        /\ Len(Out.rows) = Len(drop_duplicates(In).rows)
        /\ \A j \in 1..Len(Out.rows) :
              LET v == ToNumeric(SrcRow(j).cells["Cholesterol"])
                  o == Out.rows[j].cells["Cholesterol"]
              IN IF InRange(v, CholMin, CholMax) THEN o = v
                 ELSE IF C2_ValidValues = <<>> THEN IsNA(o)
                 ELSE o = Median(C2_ValidValues)

C2_Witness ==
    /\ pc = "once"
    /\ In.cols = {"Cholesterol"}
    /\ ColumnOf(In, "Cholesterol") = <<Num(100), Num(401), NA>>
    /\ ColumnOf(Out, "Cholesterol") = <<Num(100), Num(100), Num(100)>>

\* C3: the rows of the result are the first occurrences of the distinct rows
\* of the input, in their order; nothing else is dropped, so there are as many
\* as the input has distinct rows.
C3_FirstOccurrencesKept ==
    Returned =>
        /\ Len(Out.rows) = Cardinality({In.rows[i].cells : i \in 1..Len(In.rows)})
        /\ Labels(Out) \subseteq Labels(In)
        /\ \A j \in 1..Len(Out.rows) :
              \A h \in 1..(PosOf(In, Out.rows[j].idx) - 1) :
                  In.rows[h].cells # SrcRow(j).cells
        /\ \A j, h \in 1..Len(Out.rows) :
              j < h => PosOf(In, Out.rows[j].idx) < PosOf(In, Out.rows[h].idx)

C3_Witness ==
    /\ pc = "once"
    /\ In.cols = AllCols
    /\ Len(In.rows) = 3
    /\ Len(Out.rows) = 2
    /\ \E j \in 1..2 : IsNA(Out.rows[j].cells["Visit Date"])
                       /\ IsNA(Out.rows[j].cells["Cholesterol"])

\* C7: in the cleaned table every Age is missing or a number in [0,120] (an
\* in-range input keeps its value), every Gender is missing, "male" or
\* "female", every Phone Number is missing or 7 to 15 digits, every Email is
\* missing or contains "@", and a missing input cell of these stays missing.
C7_Checked == {"Age", "Gender", "Phone Number", "Email"}

C7_CellValid(c, o) ==
    CASE c = "Age" -> IsNA(o) \/ InRange(o, AgeMin, AgeMax)
      [] c = "Gender" -> IsNA(o) \/ (o.k = "str" /\ o.s \in {Male, Female})
      [] c = "Phone Number" ->
            IsNA(o) \/ (o.k = "str" /\ AllDigits(o.s)
                        /\ Len(o.s) \in PhoneMinLen..PhoneMaxLen)
      [] OTHER -> IsNA(o) \/ (o.k = "str" /\ Contains(o.s, "@"))

C7_CleanedCellsValid ==
    Returned =>
        \A j \in 1..Len(Out.rows) : \A c \in C7_Checked \cap Out.cols :
            LET i == SrcRow(j).cells[c]
                o == Out.rows[j].cells[c]
            IN /\ C7_CellValid(c, o)
               /\ (IsNA(i) => IsNA(o))
               /\ ((c = "Age" /\ InRange(ToNumeric(i), AgeMin, AgeMax)) => o = ToNumeric(i))

C7_Witness ==
    /\ pc = "once"
    /\ In.cols = AllCols
    /\ \E j \in 1..Len(Out.rows) :
          \A c \in C7_Checked : ~IsNA(SrcRow(j).cells[c]) /\ IsNA(Out.rows[j].cells[c])
    /\ \E j \in 1..Len(Out.rows) :
          \A c \in C7_Checked : ~IsNA(Out.rows[j].cells[c])

\* C8: clean_data adds and removes no column, and in every retained row the
\* cells of the columns it has no rule for, and of Blood Pressure, are those
\* of the input row.
C8_Written == {"Visit Date", "Age", "Gender", "Phone Number", "Email", "Cholesterol"}

C8_Frame ==
    Returned =>
        /\ Out.cols = In.cols
        /\ \A j \in 1..Len(Out.rows) :
              /\ DOMAIN Out.rows[j].cells = In.cols
              /\ \A c \in In.cols \ C8_Written :
                    Out.rows[j].cells[c] = SrcRow(j).cells[c]

C8_Witness ==
    /\ pc = "once"
    /\ In.cols = {"Blood Pressure"}
    /\ ColumnOf(Out, "Blood Pressure")
           = <<Str(<<"1", "2", "0">>), NA, Str(<<"1", "2", "0", "/", "8", "0">>)>>

\* C9 (as claimed): after clean_data(T) returns, the object T holds the
\* cleaned rows and cells.
C9_MutatedInPlace == pc = "once" => In = Out

\* C9 (amended): clean_data leaves the object it is given as it was and
\* returns another object, which holds the cleaned table.
C9_ArgumentUntouched ==
    [][(pc = "input" /\ pc' = "once") =>
          /\ arg' = df
          /\ heap'[df] = heap[df]
          /\ df' # df
          /\ heap'[df'] = clean_data(heap[df])]_vars

C9_Witness == pc = "once" /\ In # Out /\ In \in InputTables

(***************************************************************************)
(* Claims about detect_anomalies, checked under SpecDetect.  In is the     *)
(* table passed, Anom the object returned.                                 *)
(***************************************************************************)
Anom == heap[anomalies]

\* the rows of t whose value in column c coerces to a number with an absolute
\* population standard score above 3: with m numbers x of sum S, the score of
\* x is above 3 when m * (m*x - S)^2 > 9 * (sum of the (m*x' - S)^2)
C4_Outliers(t, c) ==
    LET val == [i \in 1..Len(t.rows) |-> ToNumeric(t.rows[i].cells[c])]
        valid == {i \in 1..Len(t.rows) : val[i].k = "num"}
        m == Cardinality(valid)
        x == [i \in 1..Len(t.rows) |-> IF i \in valid THEN val[i].n ELSE 0]
        S == SumSeq(x)
        dev == [i \in 1..Len(t.rows) |-> IF i \in valid THEN m * x[i] - S ELSE 0]
        SS == SumSeq([i \in 1..Len(t.rows) |-> dev[i] * dev[i]])
    IN {i \in valid : m * dev[i] * dev[i] > ZThreshold * ZThreshold * SS}

C4_Integral(t, c) ==
    \A i \in 1..Len(t.rows) : ToNumeric(t.rows[i].cells[c]).d = 1

C5_AbsentColumn ==
    [][(pc = "ready" /\ column \notin heap[df].cols) =>
          /\ pc' = "returned"
          /\ anomalies' # 0
          /\ heap'[anomalies'] = EmptyFrame
          /\ df' = df
          /\ heap'[df] = heap[df]
          /\ out' = Append(out, Printed("No column for anomaly detection.", 0))]_vars

C5_Witness ==
    /\ pc = "returned"
    /\ column = "Weight"
    /\ Anom = EmptyFrame
    /\ Len(heap[df].rows) = MaxDetectRows

C6_Degenerate(t) ==
    Cardinality({ToNumeric(t.rows[i].cells[column]) : i \in 1..Len(t.rows)} \ {NA}) <= 1

\* C6: on a column with no number, one number or only equal numbers the call
\* returns (it does not raise) a table of the same columns with no row.
C6_DegenerateNoAnomalies ==
    [][(pc = "ready" /\ column \in heap[df].cols /\ C6_Degenerate(heap[df])) =>
          /\ pc' = "returned"
          /\ anomalies' # 0
          /\ heap'[anomalies'].cols = heap[df].cols
          /\ heap'[anomalies'].rows = <<>>]_vars

C6_Witness ==
    /\ pc = "returned"
    /\ column = "Cholesterol"
    /\ Len(In.rows) = MaxDetectRows
    /\ \A i \in 1..Len(In.rows) : In.rows[i].cells["Cholesterol"] = Num(100)
    /\ Anom.rows = <<>>

(***************************************************************************)
(* Claims about main, checked under Spec.                                  *)
(***************************************************************************)
C10_FullRun ==
    <<Call("load_data", 0, ""), Call("clean_data", 1, ""), Call("visualize_data", 2, ""),
      Call("detect_anomalies", 2, "Cholesterol"), Call("summary_statistics", 2, "")>>

C10_Stage ==
    CASE pc = "main" -> 0
      [] pc \in {"loaded", "raised"} -> 1
      [] pc = "cleaned" -> 2
      [] pc = "visualized" -> 3
      [] pc = "detected" -> 4
      [] OTHER -> 5

C10_Order ==
    /\ pc \in {"main", "loaded", "raised", "cleaned", "visualized", "detected", "done"}
    /\ calls = SubSeq(C10_FullRun, 1, C10_Stage)
    /\ Readable(file) => pc # "raised"
    /\ ~Readable(file) => pc \in {"main", "raised"}
    /\ C10_Stage >= 1 /\ pc # "raised" => heap[1] = read_csv(file)
    /\ C10_Stage >= 2 => (df = 2 /\ heap[2] = clean_data(heap[1]))

\* C10: main calls load, clean, visualize, detect_anomalies on "Cholesterol"
\* and summarize once each in this order, the last three on the table clean
\* returned; a failed load is the end of the run; nothing runs after the run
\* raised or ended; and a run whose load succeeded reaches its end.
C10_Pipeline ==
    /\ []C10_Order
    /\ [][pc \notin {"raised", "done"}]_vars
    /\ (pc = "loaded") ~> (pc = "done")

C10_Witness ==
    /\ pc = "done"
    /\ calls = C10_FullRun
    /\ Len(heap[1].rows) = 3
    /\ Len(heap[2].rows) = 2
    /\ Len(out) > 9

====
